---- MODULE Spec2Model ----
(***************************************************************************)
(* MaskedLanguageModelingReader                                            *)
(* (allennlp/data/dataset_readers/masked_language_modeling.py).            *)
(*                                                                         *)
(* A reader object is shared by the callers in `callers`.  Every caller    *)
(* owns the three argument objects it passes to text_to_instance; a call   *)
(* runs the method to its end (a returned Instance or a raised exception)  *)
(* and leaves the outcome with the caller.                                 *)
(*                                                                         *)
(* Python values are encoded with one shape per kind, so that any two of   *)
(* them compare:                                                           *)
(*   str             a tuple of one-character strings                      *)
(*   Optional[list]  PyNone, or PyList(<<...>>)                            *)
(*   an outcome      [op, status, exception, instances]                    *)
(***************************************************************************)
EXTENDS Integers, Sequences, FiniteSets, TLC

VARIABLES
    callers,          \* the callers that use the reader
    _tokenizer,       \* self._tokenizer
    _token_indexers,  \* self._token_indexers
    lazy,             \* self.lazy, set by DatasetReader.__init__(lazy)
    sentence,         \* caller -> the `sentence` argument it passes
    tokens,           \* caller -> the `tokens` argument it passes
    targets,          \* caller -> the `targets` argument it passes
    outcome           \* caller -> what its latest call did

vars == <<callers, _tokenizer, _token_indexers, lazy, sentence, tokens, targets, outcome>>

-----------------------------------------------------------------------------
(* Bounds of the explored inputs. *)

\* pieces concatenated into a sentence
MaxPieces == 3
\* tokens in a pre-tokenized input
MaxLen == 3
\* entries of a targets list
MaxTargets == 2
\* the same three, where two callers share the reader
PairMaxPieces == 1
PairMaxLen == 1
PairMaxTargets == 1

-----------------------------------------------------------------------------
(* Python values. *)

PyNone == [is_none |-> TRUE, value |-> <<>>]

PyList(list) == [is_none |-> FALSE, value |-> list]

\* bool(x) of an Optional[list]: None and the empty list are both falsy
Truthy(x) == ~x.is_none /\ x.value # <<>>

\* the text "[MASK]" compared against at line 75
MASK == <<"[", "M", "A", "S", "K", "]">>

Token(text) == [text |-> text]

TextField(toks, token_indexers) == [tokens |-> toks, token_indexers |-> token_indexers]

IndexField(index, sequence_field) == [sequence_index |-> index, sequence_field |-> sequence_field]

ListField(field_list) == [field_list |-> field_list]

Instance(input_field, mask_position_field, target_field) ==
    [tokens |-> input_field, mask_positions |-> mask_position_field, target_ids |-> target_field]

\* a message and the values formatted into it
Message(text, args) == [text |-> text, args |-> args]

Pending == [op |-> "", status |-> "pending", exception |-> <<>>, instances |-> <<>>]

Returned(op, instance) ==
    [op |-> op, status |-> "returned", exception |-> <<>>, instances |-> <<instance>>]

Raised(op, type, message) ==
    [op |-> op, status |-> "raised",
     exception |-> <<[type |-> type, message |-> message]>>, instances |-> <<>>]

-----------------------------------------------------------------------------
(* The default tokenizer, WordTokenizer(word_splitter=JustSpacesWordSplitter()) *)

Whitespace == {" "}

\* str.split() without arguments: the maximal runs of non-whitespace characters
RECURSIVE split_words(_, _, _)
split_words(s, word, words) ==
    IF s = <<>>
    THEN IF word = <<>> THEN words ELSE Append(words, word)
    ELSE IF Head(s) \in Whitespace
         THEN split_words(Tail(s), <<>>, IF word = <<>> THEN words ELSE Append(words, word))
         ELSE split_words(Tail(s), Append(word, Head(s)), words)

tokenize(text) ==
    LET words == split_words(text, <<>>, <<>>)
    IN  [i \in 1..Len(words) |-> Token(words[i])]

DefaultTokenizer == "WordTokenizer(JustSpacesWordSplitter)"

DefaultTokenIndexers == {<<"tokens", "SingleIdTokenIndexer">>}

-----------------------------------------------------------------------------
(* text_to_instance, lines 70-85 *)

\* lines 70-71: the token sequence the rest of the method works on
input_tokens(s, toks) ==
    IF ~Truthy(toks) THEN tokenize(s) ELSE toks.value

\* lines 73-76: enumerate() counts from 0; i tokens have been scanned so far
RECURSIVE scan_masks(_, _, _)
scan_masks(toks, i, found) ==
    IF i = Len(toks)
    THEN found
    ELSE scan_masks(toks, i + 1,
                    IF toks[i + 1].text = MASK THEN Append(found, i) ELSE found)

\* a slip that counts the positions from 1, as enumerate(tokens, 1) would
mask_positions_from_one(toks) ==
    LET found == scan_masks(toks, 0, <<>>)
    IN  [j \in 1..Len(found) |-> found[j] + 1]

mask_positions(toks) == scan_masks(toks, 0, <<>>)

\* a slip that compares the counts before it looks for an empty scan
validate_mismatch_first(positions, tgts) ==
    IF Truthy(tgts) /\ Len(tgts.value) # Len(positions)
    THEN <<[type |-> "ValueError",
            message |-> Message("Found {} mask tokens and {} targets",
                                <<Len(positions), Len(tgts.value)>>)]>>
    ELSE IF positions = <<>>
         THEN <<[type |-> "ValueError", message |-> Message("No [MASK] tokens found!", <<>>)]>>
         ELSE <<>>

\* lines 77-80: the exception raised, if any
validate(positions, tgts) ==
    IF positions = <<>>
    THEN <<[type |-> "ValueError", message |-> Message("No [MASK] tokens found!", <<>>)]>>
    ELSE IF Truthy(tgts) /\ Len(tgts.value) # Len(positions)
         THEN <<[type |-> "ValueError",
                 message |-> Message("Found {} mask tokens and {} targets",
                                     <<Len(positions), Len(tgts.value)>>)]>>
         ELSE <<>>

\* line 81
mask_position_field(positions, input_field) ==
    ListField([j \in 1..Len(positions) |-> IndexField(positions[j], input_field)])

\* a slip that builds the target tokens in the opposite order
target_field_reversed(tgts, token_indexers) ==
    TextField([j \in 1..Len(tgts) |-> Token(tgts[Len(tgts) + 1 - j])], token_indexers)

\* line 82, for a targets list
target_field(tgts, token_indexers) ==
    TextField([j \in 1..Len(tgts) |-> Token(tgts[j])], token_indexers)

text_to_instance(s, toks, tgts) ==
    LET in_tokens == input_tokens(s, toks)
        input_field == TextField(in_tokens, _token_indexers)
        positions == mask_positions(in_tokens)
        error == validate(positions, tgts)
    IN  IF error # <<>>
        THEN Raised("text_to_instance", error[1].type, error[1].message)
        ELSE IF tgts.is_none
             \* line 82 iterates over targets: None is not iterable
             THEN Raised("text_to_instance", "TypeError",
                         Message("'NoneType' object is not iterable", <<>>))
             ELSE Returned("text_to_instance",
                           Instance(input_field,
                                    mask_position_field(positions, input_field),
                                    target_field(tgts.value, _token_indexers)))

\* a slip that leaves the method a stub returning no instances
_read_returns_nothing(file_path) ==
    [op |-> "_read", status |-> "returned", exception |-> <<>>, instances |-> <<>>]

\* lines 48-50
_read(file_path) == Raised("_read", "NotImplementedError", Message("", <<>>))

-----------------------------------------------------------------------------
(* The inputs explored *)

SeqsUpTo(S, n) == UNION {[1..k -> S] : k \in 0..n}

SentencePieces == {<<" ">>, MASK, <<".">>}

RECURSIVE Concats(_, _)
Concats(P, n) ==
    IF n = 0 THEN {<<>>}
    ELSE LET shorter == Concats(P, n - 1)
         IN  shorter \cup {s \o p : s \in shorter, p \in P}

\* the sentence of test_text_to_instance_with_basic_tokenizer_and_indexer
TestSentence ==
    <<"T", "h", "i", "s", " ", "i", "s", " ", "a", " ">> \o MASK \o
    <<" ", "t", "o", "k", "e", "n", " ", ".">>

Sentences == Concats(SentencePieces, MaxPieces) \cup {TestSentence}

LowerMask == <<"[", "m", "a", "s", "k", "]">>

TokenTexts == {MASK, LowerMask}

TokenLists == {PyNone} \cup {PyList([i \in DOMAIN l |-> Token(l[i])]) : l \in SeqsUpTo(TokenTexts, MaxLen)}

TargetTexts == {<<"T", "h", "i", "s">>, <<"a">>}

TargetLists == {PyNone} \cup {PyList(l) : l \in SeqsUpTo(TargetTexts, MaxTargets)}

FilePaths == {"train.txt", "dev.txt"}

PairSentences == Concats({<<" ">>, MASK}, PairMaxPieces)

PairTokenLists ==
    {PyNone} \cup {PyList([i \in DOMAIN l |-> Token(l[i])]) : l \in SeqsUpTo({MASK}, PairMaxLen)}

PairTargetLists == {PyNone} \cup {PyList(l) : l \in SeqsUpTo({<<"a">>}, PairMaxTargets)}

-----------------------------------------------------------------------------
(* The reader and its callers *)

\* the token_indexers argument: a dict as its set of items; None and the empty dict,
\* both falsy, are the empty set
TokenIndexerArgs == {{}, {<<"bert", "PretrainedBertIndexer">>}}

\* lines 40-46; the tokenizer argument is left at its default, None
__init__(token_indexers_arg, lazy_arg) ==
    /\ lazy = lazy_arg
    /\ _tokenizer = DefaultTokenizer
    /\ _token_indexers = IF token_indexers_arg # {} THEN token_indexers_arg ELSE DefaultTokenIndexers

\* one caller with inputs from the wide sets
Init ==
    /\ callers = {"c1"}
    /\ \E token_indexers_arg \in TokenIndexerArgs, lazy_arg \in BOOLEAN :
           __init__(token_indexers_arg, lazy_arg)
    /\ sentence \in [callers -> Sentences]
    /\ tokens \in [callers -> TokenLists]
    /\ targets \in [callers -> TargetLists]
    /\ outcome = [c \in callers |-> Pending]

\* two callers with inputs from the narrow sets
InitPair ==
    /\ callers = {"c1", "c2"}
    /\ \E token_indexers_arg \in TokenIndexerArgs, lazy_arg \in BOOLEAN :
           __init__(token_indexers_arg, lazy_arg)
    /\ sentence \in [callers -> PairSentences]
    /\ tokens \in [callers -> PairTokenLists]
    /\ targets \in [callers -> PairTargetLists]
    /\ outcome = [c \in callers |-> Pending]

\* a slip that uses up the caller's targets list while building the target field
CallTextToInstance_consuming_targets(c) ==
    /\ outcome' = [outcome EXCEPT ![c] = text_to_instance(sentence[c], tokens[c], targets[c])]
    /\ targets' = [targets EXCEPT ![c] = IF targets[c].is_none THEN PyNone ELSE PyList(<<>>)]
    /\ UNCHANGED <<callers, _tokenizer, _token_indexers, lazy, sentence, tokens>>

\* caller c calls reader.text_to_instance(sentence, tokens, targets)
CallTextToInstance(c) ==
    /\ outcome' = [outcome EXCEPT ![c] = text_to_instance(sentence[c], tokens[c], targets[c])]
    /\ UNCHANGED <<callers, _tokenizer, _token_indexers, lazy, sentence, tokens, targets>>

\* caller c calls reader._read(file_path)
CallRead(c, file_path) ==
    /\ outcome' = [outcome EXCEPT ![c] = _read(file_path)]
    /\ UNCHANGED <<callers, _tokenizer, _token_indexers, lazy, sentence, tokens, targets>>

TextToInstance == \E c \in callers : CallTextToInstance(c)

Read == \E c \in callers, file_path \in FilePaths : CallRead(c, file_path)

Next == TextToInstance \/ Read

Spec == Init /\ [][Next]_vars

SpecPair == InitPair /\ [][Next]_vars

-----------------------------------------------------------------------------
(* What the claims speak about *)

Called(c) == outcome[c].op = "text_to_instance"

ReturnedExample(c) == Called(c) /\ outcome[c].status = "returned"

example(c) == outcome[c].instances[1]

\* the sequence_index of each entry of an example's mask_positions
indices(ex) ==
    [j \in 1..Len(ex.mask_positions.field_list) |-> ex.mask_positions.field_list[j].sequence_index]

\* the text of each token of a text field
texts(field) == [j \in 1..Len(field.tokens) |-> field.tokens[j].text]

MaskCount(toks) == Cardinality({i \in 1..Len(toks) : toks[i].text = MASK})

\* the token sequence a call works on: the tokenizer's output, or the tokens passed
Scanned(c) == input_tokens(sentence[c], tokens[c])

RaisedValueError(c, text) ==
    /\ Called(c)
    /\ outcome[c].status = "raised"
    /\ outcome[c].exception[1].type = "ValueError"
    /\ outcome[c].exception[1].message.text = text
    /\ outcome[c].instances = <<>>

NoMaskError(c) == RaisedValueError(c, "No [MASK] tokens found!")

MismatchError(c) == RaisedValueError(c, "Found {} mask tokens and {} targets")

-----------------------------------------------------------------------------
(* C1: for every token sequence with at least one "[MASK]" token, a call   *)
(* without targets (targets is None) returns an example whose              *)
(* mask_positions has one entry per "[MASK]" token and whose target_ids is *)
(* empty.                                                                  *)
C1_NoTargetsSucceeds ==
    \A c \in callers :
        (Called(c) /\ targets[c].is_none /\ MaskCount(Scanned(c)) >= 1)
        => /\ outcome[c].status = "returned"
           /\ Len(example(c).mask_positions.field_list) = MaskCount(Scanned(c))
           /\ example(c).target_ids.tokens = <<>>

(* C2: for every token sequence with m > 0 "[MASK]" tokens and every       *)
(* targets list of another length k (k = 0 included), the call raises the  *)
(* target-count-mismatch error and returns no example.                     *)
C2_MismatchRaises ==
    \A c \in callers :
        (/\ Called(c)
         /\ ~targets[c].is_none
         /\ MaskCount(Scanned(c)) # 0
         /\ Len(targets[c].value) # MaskCount(Scanned(c)))
        => MismatchError(c)

(* C3: every returned example has mask_positions and target_ids of equal   *)
(* length.                                                                 *)
C3_EqualLengths ==
    \A c \in callers :
        ReturnedExample(c)
        => Len(example(c).mask_positions.field_list) = Len(example(c).target_ids.tokens)

(* C4: two calls that pass the same tokens (any list, the empty one        *)
(* included) and the same targets have the same outcome, whatever sentence *)
(* each passes.                                                            *)
C4_SentenceIgnored ==
    \A c \in callers, d \in callers :
        (/\ Called(c) /\ Called(d)
         /\ ~tokens[c].is_none
         /\ tokens[c] = tokens[d]
         /\ targets[c] = targets[d])
        => outcome[c] = outcome[d]

C6_MaskPositionsExact ==
    \A c \in callers :
        ReturnedExample(c)
        => LET toks == example(c).tokens.tokens
               pos == indices(example(c))
           IN  /\ \A j \in 1..Len(pos) :
                      /\ pos[j] \in 0..(Len(toks) - 1)
                      /\ toks[pos[j] + 1].text = MASK
                      /\ example(c).mask_positions.field_list[j].sequence_field = example(c).tokens
               /\ \A j \in 1..Len(pos), k \in 1..Len(pos) : j < k => pos[j] < pos[k]
               /\ \A i \in 0..(Len(toks) - 1) :
                      toks[i + 1].text = MASK => \E j \in 1..Len(pos) : pos[j] = i
               /\ (tokens[c].is_none /\ sentence[c] = TestSentence) => pos = <<3>>

\* an example with a near-miss token in front of two masks
C6_Witness ==
    \E c \in callers :
        /\ ReturnedExample(c)
        /\ texts(example(c).tokens) = <<LowerMask, MASK, MASK>>
        /\ indices(example(c)) = <<1, 2>>

(* C7: when targets has as many entries as there are "[MASK]" tokens (and  *)
(* at least one), the call returns an example whose target_ids texts are   *)
(* targets, entry by entry, one per mask position, under the reader's      *)
(* token indexers.                                                         *)
C7_TargetsKept ==
    \A c \in callers :
        (/\ Called(c)
         /\ ~targets[c].is_none
         /\ MaskCount(Scanned(c)) # 0
         /\ Len(targets[c].value) = MaskCount(Scanned(c)))
        => /\ outcome[c].status = "returned"
           /\ texts(example(c).target_ids) = targets[c].value
           /\ Len(indices(example(c))) = Len(targets[c].value)
           /\ example(c).target_ids.token_indexers = _token_indexers

\* two different targets for two masks
C7_Witness ==
    \E c \in callers :
        /\ ReturnedExample(c)
        /\ Len(targets[c].value) = 2
        /\ targets[c].value[1] # targets[c].value[2]
        /\ texts(example(c).target_ids) = targets[c].value

(* C8: in every returned example the tokens field holds the tokens passed  *)
(* when tokens is given, and otherwise the tokenizer's output on sentence. *)
C8_TokensKept ==
    \A c \in callers :
        ReturnedExample(c)
        => example(c).tokens.tokens =
               IF tokens[c].is_none THEN tokenize(sentence[c]) ELSE tokens[c].value

\* the inputs and the outcome of the calls made so far agree
SameInputsSameOutcome ==
    \A c \in callers, d \in callers :
        (/\ Called(c) /\ Called(d)
         /\ sentence[c] = sentence[d]
         /\ tokens[c] = tokens[d]
         /\ targets[c] = targets[d])
        => outcome[c] = outcome[d]

ValidationErrorTypes ==
    {validate(<<>>, PyNone)[1].type, validate(<<0>>, PyList(<<MASK, MASK>>))[1].type}

(* C10: _read, for any file path and either lazy flag, raises              *)
(* NotImplementedError, which is not the type of a validation failure, and *)
(* yields no example.                                                      *)
C10_ReadNotImplemented ==
    \A c \in callers :
        outcome[c].op = "_read"
        => /\ outcome[c].status = "raised"
           /\ outcome[c].exception[1].type = "NotImplementedError"
           /\ outcome[c].exception[1].type \notin ValidationErrorTypes
           /\ outcome[c].instances = <<>>

\* _read was called on a lazy reader
C10_Witness ==
    \E c \in callers : outcome[c].op = "_read" /\ lazy

====
